---------------------------- MODULE Spec2Model ----------------------------
(***************************************************************************)
(* Model of the physiotherapy pose-comparison backend:                     *)
(*   backend/utils.py, backend/pose_engine.py, backend/similarity.py,      *)
(*   backend/feedback.py, backend/websocket_handler.py, backend/app.py.    *)
(*                                                                         *)
(* Numbers are fixed point.  A coordinate 1.0 is 100, a confidence 1.0 is  *)
(* 100, a normalized coordinate 1.0 is 1000, an angle of one degree is 100 *)
(* and a score of 1.0 is 100.  Square root, arccos and exp are computed by *)
(* integer algorithms (floor square root, one-degree cosine table,         *)
(* piecewise-linear exp table).                                            *)
(***************************************************************************)
EXTENDS Integers, Sequences, FiniteSets, TLC

\* ------------------------------------------------------------------------
\* Bounds of the model
\* ------------------------------------------------------------------------
\* Stream connections, messages received over all connections, and
\* analyze_image requests
NumSessions == 2
MaxMsgs == 2
MaxRest == 1

\* ------------------------------------------------------------------------
\* The absent value
\* ------------------------------------------------------------------------
\* Python None for an angle (angles are never negative)
NoneAngle == -1
\* Python None for a string
NoneStr == "<None>"
\* Python None for a list
NoneList == << >>

\* ------------------------------------------------------------------------
\* utils.py: constants
\* ------------------------------------------------------------------------
KpIdx == 0..16

MEDIAPIPE_INDICES ==
  [c \in KpIdx |->
     CASE c = 0 -> 0   [] c = 1 -> 2   [] c = 2 -> 5   [] c = 3 -> 7
       [] c = 4 -> 8   [] c = 5 -> 11  [] c = 6 -> 12  [] c = 7 -> 13
       [] c = 8 -> 14  [] c = 9 -> 15  [] c = 10 -> 16 [] c = 11 -> 23
       [] c = 12 -> 24 [] c = 13 -> 25 [] c = 14 -> 26 [] c = 15 -> 27
       [] OTHER -> 28]

AngleNames ==
  << "left_elbow", "right_elbow", "left_shoulder", "right_shoulder",
     "left_knee", "right_knee", "left_hip", "right_hip" >>

ANGLE_DEFINITIONS ==
  [ left_elbow     |-> <<5, 7, 9>>,
    right_elbow    |-> <<6, 8, 10>>,
    left_shoulder  |-> <<7, 5, 11>>,
    right_shoulder |-> <<8, 6, 12>>,
    left_knee      |-> <<11, 13, 15>>,
    right_knee     |-> <<12, 14, 16>>,
    left_hip       |-> <<5, 11, 13>>,
    right_hip      |-> <<6, 12, 14>> ]

MIN_CONFIDENCE == 30

\* ------------------------------------------------------------------------
\* Arithmetic helpers (numpy / math primitives in fixed point)
\* ------------------------------------------------------------------------
Abs(x) == IF x < 0 THEN -x ELSE x
Max(a, b) == IF a >= b THEN a ELSE b
Min(a, b) == IF a <= b THEN a ELSE b

\* x / y rounded to the nearest integer (y > 0)
RoundDiv(x, y) == IF x >= 0 THEN (2 * x + y) \div (2 * y)
                            ELSE -((2 * (-x) + y) \div (2 * y))

RECURSIVE SqrtIter(_, _, _)
SqrtIter(n, lo, hi) ==
  IF lo >= hi THEN lo
  ELSE LET mid == (lo + hi + 1) \div 2
       IN IF mid * mid <= n THEN SqrtIter(n, mid, hi)
                            ELSE SqrtIter(n, lo, mid - 1)

\* floor of the square root
ISqrt(n) == SqrtIter(n, 0, Min(n, 46340))

\* np.linalg.norm of a 2-vector
Norm(dx, dy) == ISqrt(dx * dx + dy * dy)

RECURSIVE SumSeq(_)
SumSeq(s) == IF s = << >> THEN 0 ELSE Head(s) + SumSeq(Tail(s))

\* np.mean of a non-empty list
Mean(s) == SumSeq(s) \div Len(s)

\* cos(a degrees) * 10000 for a = 0..90, index a + 1
CosTab ==
  << 10000, 9998, 9994, 9986, 9976, 9962, 9945, 9925, 9903, 9877, 9848,
     9816, 9781, 9744, 9703, 9659, 9613, 9563, 9511, 9455, 9397, 9336,
     9272, 9205, 9135, 9063, 8988, 8910, 8829, 8746, 8660, 8572, 8480,
     8387, 8290, 8192, 8090, 7986, 7880, 7771, 7660, 7547, 7431, 7314,
     7193, 7071, 6947, 6820, 6691, 6561, 6428, 6293, 6157, 6018, 5878,
     5736, 5592, 5446, 5299, 5150, 5000, 4848, 4695, 4540, 4384, 4226,
     4067, 3907, 3746, 3584, 3420, 3256, 3090, 2924, 2756, 2588, 2419,
     2250, 2079, 1908, 1736, 1564, 1392, 1219, 1045, 872, 698, 523, 349,
     175, 0 >>

CosDeg(a) == IF a <= 90 THEN CosTab[a + 1] ELSE -CosTab[180 - a + 1]

RECURSIVE ArcCosIter(_, _, _)
ArcCosIter(c, lo, hi) ==
  IF lo >= hi THEN lo
  ELSE LET mid == (lo + hi) \div 2
       IN IF CosDeg(mid) <= c THEN ArcCosIter(c, lo, mid)
                               ELSE ArcCosIter(c, mid + 1, hi)

\* np.degrees(np.arccos(c / 10000)) to the nearest whole degree,
\* c in -10000..10000
ArcCosDeg(c) ==
  LET a == ArcCosIter(c, 0, 180)
  IN IF a > 0 /\ (CosDeg(a - 1) - c) < (c - CosDeg(a)) THEN a - 1 ELSE a

RECURSIVE Gcd(_, _)
Gcd(a, b) == IF b = 0 THEN a ELSE Gcd(b, a % b)

\* The vector r, whose larger component has magnitude m, scaled so that the
\* larger component has magnitude (about) 200
ScaleTo200(r, m) ==
  IF m = 0 THEN r
  ELSE IF m <= 200 THEN << r[1] * (200 \div m), r[2] * (200 \div m) >>
  ELSE << RoundDiv(r[1] * 200, m), RoundDiv(r[2] * 200, m) >>

\* The vector v divided by the common divisor g of its components
Reduce(v, g) == IF g = 0 THEN v ELSE << v[1] \div g, v[2] \div g >>

LargerComponent(r) == Max(Abs(r[1]), Abs(r[2]))

\* A 2-vector brought to a working magnitude of at most 200 per component
\* without changing its direction (the angle does not depend on the lengths)
Rescale(v) ==
  ScaleTo200(Reduce(v, Gcd(Abs(v[1]), Abs(v[2]))),
             LargerComponent(Reduce(v, Gcd(Abs(v[1]), Abs(v[2])))))

\* np.clip
Clip(x, lo, hi) == IF x < lo THEN lo ELSE IF x > hi THEN hi ELSE x

\* The precision factor (1, 10 or 100) the norm of a squared length q is kept at
NormFactor(q) == IF q < 200000 THEN 100 ELSE IF q < 20000000 THEN 10 ELSE 1

\* exp(-0.25 * k) * 1000 for k = 0..32, index k + 1
ExpTab ==
  << 1000, 779, 607, 472, 368, 287, 223, 174, 135, 105, 82, 64, 50, 39, 30,
     24, 18, 14, 11, 9, 7, 5, 4, 3, 2, 2, 2, 1, 1, 1, 1, 0, 0 >>

\* np.exp(-x / 1000) * 1000, x >= 0, linear between the table points
ExpNeg(x) ==
  IF x >= 8000 THEN 0
  ELSE LET k == x \div 250
           r == x % 250
           lo == ExpTab[k + 1]
           hi == ExpTab[k + 2]
       IN lo - ((lo - hi) * r) \div 250

\* ------------------------------------------------------------------------
\* utils.py: compute_angle, normalize_keypoints
\* ------------------------------------------------------------------------

\* Lines 108-113 of compute_angle: the angle between v1 and v2, whose norms
\* (times 100) are norm1 and norm2
AngleBetween(v1, v2, norm1, norm2) ==
  IF norm1 = 0 \/ norm2 = 0 THEN 0
  ELSE LET dot == v1[1] * v2[1] + v1[2] * v2[2]
           cos_angle == RoundDiv(dot * 10000, RoundDiv(norm1 * norm2, 10000))
       IN ArcCosDeg(Clip(cos_angle, -10000, 10000)) * 100

\* np.linalg.norm of a working vector, times 100
Norm100(v) == ISqrt((v[1] * v[1] + v[2] * v[2]) * 10000)

AngleOfVectors(v1, v2) == AngleBetween(v1, v2, Norm100(v1), Norm100(v2))

\* Angle at p2 in hundredths of a degree (whole degrees)
compute_angle(p1, p2, p3) ==
  AngleOfVectors(Rescale(<< p1[1] - p2[1], p1[2] - p2[2] >>),
                 Rescale(<< p3[1] - p2[1], p3[2] - p2[2] >>))

\* Lines 142-147 of normalize_keypoints: the keypoints relative to the center
\* (given doubled) in units of torso_size, which is kept times torso_f;
\* result coordinates are in thousandths
NormalizeBy(keypoints, cx2, cy2, torso_size, torso_f) ==
  [i \in KpIdx |->
     << RoundDiv((2 * keypoints[i][1] - cx2) * 500 * torso_f, torso_size),
        RoundDiv((2 * keypoints[i][2] - cy2) * 500 * torso_f, torso_size),
        keypoints[i][3] >>]

\* Lines 138-140: torso_size (times f) from its square q;
\* torso_size < 1e-8: torso_size = 1.0
NormalizeWithTorso(keypoints, cx2, cy2, norm, f) ==
  IF norm = 0 THEN NormalizeBy(keypoints, cx2, cy2, 100 * 100, 100)
              ELSE NormalizeBy(keypoints, cx2, cy2, norm, f)

NormalizeWithSquare(keypoints, cx2, cy2, q, f) ==
  NormalizeWithTorso(keypoints, cx2, cy2, ISqrt(q * f * f), f)

\* Keypoints relative to the hip midpoint, in units of the torso size
normalize_keypoints(keypoints) ==
  LET left_hip == keypoints[11]
      right_hip == keypoints[12]
      left_shoulder == keypoints[5]
      dx == left_shoulder[1] - right_hip[1]
      dy == left_shoulder[2] - right_hip[2]
  IN NormalizeWithSquare(keypoints, left_hip[1] + right_hip[1],
                         left_hip[2] + right_hip[2], dx * dx + dy * dy,
                         NormFactor(dx * dx + dy * dy))

\* ------------------------------------------------------------------------
\* pose_engine.py: PoseEngine.detect_keypoints, compute_joint_angles,
\* smooth_pose
\* ------------------------------------------------------------------------

\* Lines 83-92 of detect_keypoints: the COCO-17 keypoints, in pixels, of the
\* landmarks (coordinates in hundredths of the image size) found on a frame
\* of w by h pixels
KeypointsOf(landmarks, w, h) ==
  [c \in KpIdx |->
     LET lm == landmarks[MEDIAPIPE_INDICES[c]]
     IN << lm[1] * w, lm[2] * h, lm[3] >>]

\* detect_keypoints on a frame, given what the landmarker returns for it
\* (NoneList: no pose)
detect_keypoints(frame, pose_landmarks) ==
  IF pose_landmarks = NoneList THEN NoneList
  ELSE KeypointsOf(pose_landmarks, frame.w, frame.h)

compute_joint_angles(keypoints) ==
  [name \in DOMAIN ANGLE_DEFINITIONS |->
     LET p1 == keypoints[ANGLE_DEFINITIONS[name][1]]
         p2 == keypoints[ANGLE_DEFINITIONS[name][2]]
         p3 == keypoints[ANGLE_DEFINITIONS[name][3]]
     IN IF p1[3] < MIN_CONFIDENCE \/ p2[3] < MIN_CONFIDENCE
           \/ p3[3] < MIN_CONFIDENCE
        THEN NoneAngle
        ELSE compute_angle(p1, p2, p3)]

\* A faulty variant of Ema with the two weights exchanged
Ema_Swapped(c, p) == RoundDiv(4 * c + 6 * p, 10)

\* alpha * c + (1 - alpha) * p with alpha = 0.6
Ema(c, p) == RoundDiv(6 * c + 4 * p, 10)

\* smooth_pose: the returned skeleton and the new self._prev_keypoints
smooth_pose(prev_keypoints, current) ==
  IF prev_keypoints = NoneList
  THEN [out |-> current, prev |-> current]
  ELSE LET smoothed ==
             [i \in KpIdx |->
                IF current[i][3] < MIN_CONFIDENCE THEN current[i]
                ELSE << Ema(current[i][1], prev_keypoints[i][1]),
                        Ema(current[i][2], prev_keypoints[i][2]),
                        current[i][3] >>]
       IN [out |-> smoothed, prev |-> smoothed]

\* ------------------------------------------------------------------------
\* similarity.py
\* ------------------------------------------------------------------------

\* dict.get(name)
GetAngle(angles, name) ==
  IF name \in DOMAIN angles THEN angles[name] ELSE NoneAngle

RECURSIVE SumOver(_, _)
SumOver(f, S) ==
  IF S = {} THEN 0
  ELSE LET x == CHOOSE y \in S : TRUE IN f[x] + SumOver(f, S \ {x})

compute_keypoint_similarity(live_kps, ref_kps) ==
  LET mask == {i \in KpIdx : live_kps[i][3] >= MIN_CONFIDENCE
                             /\ ref_kps[i][3] >= MIN_CONFIDENCE}
  IN IF Cardinality(mask) < 3 THEN 5000
     ELSE LET distances ==
                [i \in mask |-> Norm(live_kps[i][1] - ref_kps[i][1],
                                     live_kps[i][2] - ref_kps[i][2])]
              \* k = 2.0
              similarities == [i \in mask |-> ExpNeg(2 * distances[i])]
          IN (SumOver(similarities, mask) * 10) \div Cardinality(mask)

\* A faulty variant of AngleScore whose third band falls by 1 per degree
AngleScore_Steep(diff) ==
  IF diff <= 1500 THEN 10000
  ELSE IF diff <= 3000 THEN 10000 - (diff - 1500) * 2
  ELSE IF diff <= 6000 THEN 7000 - (diff - 3000)
  ELSE Max(0, 3000 - (diff - 6000))

\* The score of one joint for the absolute difference diff
AngleScore(diff) ==
  IF diff <= 1500 THEN 10000
  ELSE IF diff <= 3000 THEN 10000 - (diff - 1500) * 2
  ELSE IF diff <= 6000 THEN 7000 - ((diff - 3000) * 40) \div 30
  ELSE Max(0, 3000 - (diff - 6000))

compute_angle_similarity(live_angles, ref_angles) ==
  LET names == {n \in DOMAIN ANGLE_DEFINITIONS :
                  /\ GetAngle(live_angles, n) # NoneAngle
                  /\ GetAngle(ref_angles, n) # NoneAngle}
      scores == [n \in names |->
                   AngleScore(Abs(live_angles[n] - ref_angles[n]))]
  IN IF names = {} THEN 5000
     ELSE SumOver(scores, names) \div Cardinality(names)

\* A faulty variant of FinalScore with the two weights exchanged
FinalScore_Swapped(kp_score, angle_score) ==
  RoundDiv(Max(0, Min(400000, 30 * kp_score + 10 * angle_score)), 400) * 10

\* Lines 104-105: final = 0.25 * kp_score + 0.75 * angle_score, then
\* round(max(0.0, min(100.0, final)), 1); 40 * final is computed exactly
FinalScore(kp_score, angle_score) ==
  RoundDiv(Max(0, Min(400000, 10 * kp_score + 30 * angle_score)), 400) * 10

compute_similarity(live_kps, ref_kps, live_angles, ref_angles) ==
  FinalScore(compute_keypoint_similarity(live_kps, ref_kps),
             compute_angle_similarity(live_angles, ref_angles))

\* ------------------------------------------------------------------------
\* feedback.py
\* ------------------------------------------------------------------------
ANGLE_ISSUE_MESSAGES ==
  [ left_elbow     |-> [too_small |-> "Left elbow bent too much",
                        too_large |-> "Left elbow not bent enough"],
    right_elbow    |-> [too_small |-> "Right elbow bent too much",
                        too_large |-> "Right elbow not bent enough"],
    left_shoulder  |-> [too_small |-> "Left arm too close to body",
                        too_large |-> "Left arm raised too high"],
    right_shoulder |-> [too_small |-> "Right arm too close to body",
                        too_large |-> "Right arm raised too high"],
    left_knee      |-> [too_small |-> "Left knee bent too much",
                        too_large |-> "Left knee not bent enough"],
    right_knee     |-> [too_small |-> "Right knee bent too much",
                        too_large |-> "Right knee not bent enough"],
    left_hip       |-> [too_small |-> "Left hip angle too narrow",
                        too_large |-> "Left hip angle too wide"],
    right_hip      |-> [too_small |-> "Right hip angle too narrow",
                        too_large |-> "Right hip angle too wide"] ]

GOOD_MESSAGES ==
  [ left_elbow     |-> "Left elbow position correct",
    right_elbow    |-> "Right elbow position correct",
    left_shoulder  |-> "Left shoulder alignment correct",
    right_shoulder |-> "Right shoulder alignment correct",
    left_knee      |-> "Left knee position correct",
    right_knee     |-> "Right knee position correct",
    left_hip       |-> "Left hip alignment correct",
    right_hip      |-> "Right hip alignment correct" ]

ANGLE_TOLERANCE == 2500

\* The loop of generate_feedback over the joints names[k..], appending to acc
RECURSIVE FeedbackLoop(_, _, _, _)
FeedbackLoop(live_angles, ref_angles, k, acc) ==
  IF k > Len(AngleNames) THEN acc
  ELSE LET name == AngleNames[k]
           live_val == GetAngle(live_angles, name)
           ref_val == GetAngle(ref_angles, name)
           diff == live_val - ref_val
       IN IF live_val = NoneAngle \/ ref_val = NoneAngle
          THEN FeedbackLoop(live_angles, ref_angles, k + 1, acc)
          ELSE IF Abs(diff) <= ANGLE_TOLERANCE
          THEN FeedbackLoop(live_angles, ref_angles, k + 1,
                 [acc EXCEPT !.good = Append(@, GOOD_MESSAGES[name])])
          ELSE IF diff < -ANGLE_TOLERANCE
          THEN FeedbackLoop(live_angles, ref_angles, k + 1,
                 [acc EXCEPT !.issues =
                    Append(@, ANGLE_ISSUE_MESSAGES[name].too_small)])
          ELSE FeedbackLoop(live_angles, ref_angles, k + 1,
                 [acc EXCEPT !.issues =
                    Append(@, ANGLE_ISSUE_MESSAGES[name].too_large)])

\* A faulty variant of generate_feedback that takes the difference as
\* reference minus live
generate_feedback_Reversed(live_angles, ref_angles, similarity, confidence) ==
  LET lists == FeedbackLoop(ref_angles, live_angles, 1,
                            [issues |-> << >>, good |-> << >>])
  IN [similarity |-> similarity,
      confidence |-> confidence,
      issues |-> lists.issues,
      good |-> lists.good]

generate_feedback(live_angles, ref_angles, similarity, confidence) ==
  LET lists == FeedbackLoop(live_angles, ref_angles, 1,
                            [issues |-> << >>, good |-> << >>])
  IN [similarity |-> similarity,
      confidence |-> confidence,
      issues |-> lists.issues,
      good |-> lists.good]

\* ------------------------------------------------------------------------
\* Inputs: what the landmarker finds on the images the clients send
\* ------------------------------------------------------------------------

\* The 33 MediaPipe landmarks of a pose given by its 17 COCO points
\* (x, y in hundredths of the image size, visibility in hundredths)
LandmarksOf(coco) ==
  [m \in 0..32 |->
     IF \E c \in KpIdx : MEDIAPIPE_INDICES[c] = m
     THEN coco[CHOOSE c \in KpIdx : MEDIAPIPE_INDICES[c] = m]
     ELSE << 0, 0, 0 >>]

\* Standing, arms down
PoseA ==
  LandmarksOf([c \in KpIdx |->
     CASE c = 0 -> <<50, 10, 90>>  [] c = 1 -> <<52, 8, 90>>
       [] c = 2 -> <<48, 8, 90>>   [] c = 3 -> <<54, 9, 90>>
       [] c = 4 -> <<46, 9, 90>>   [] c = 5 -> <<65, 20, 90>>
       [] c = 6 -> <<35, 20, 90>>  [] c = 7 -> <<65, 40, 90>>
       [] c = 8 -> <<35, 40, 90>>  [] c = 9 -> <<65, 55, 90>>
       [] c = 10 -> <<35, 55, 90>> [] c = 11 -> <<65, 60, 90>>
       [] c = 12 -> <<35, 60, 90>> [] c = 13 -> <<65, 80, 90>>
       [] c = 14 -> <<35, 80, 90>> [] c = 15 -> <<65, 95, 90>>
       [] OTHER -> <<35, 95, 90>>])

\* Arms stretched sideways, knees bent at a right angle
PoseB ==
  LandmarksOf([c \in KpIdx |->
     CASE c = 0 -> <<50, 10, 80>>  [] c = 1 -> <<52, 8, 80>>
       [] c = 2 -> <<48, 8, 80>>   [] c = 3 -> <<54, 9, 80>>
       [] c = 4 -> <<46, 9, 80>>   [] c = 5 -> <<65, 20, 80>>
       [] c = 6 -> <<35, 20, 80>>  [] c = 7 -> <<80, 20, 80>>
       [] c = 8 -> <<20, 20, 80>>  [] c = 9 -> <<95, 20, 80>>
       [] c = 10 -> <<5, 20, 80>>  [] c = 11 -> <<65, 60, 80>>
       [] c = 12 -> <<35, 60, 80>> [] c = 13 -> <<65, 80, 80>>
       [] c = 14 -> <<35, 80, 80>> [] c = 15 -> <<85, 80, 80>>
       [] OTHER -> <<15, 80, 80>>])

\* The landmarks with every visibility replaced by v
WithVisibility(landmarks, v) ==
  [m \in DOMAIN landmarks |-> << landmarks[m][1], landmarks[m][2], v >>]

\* Standing, nothing seen with confidence
PoseLow == WithVisibility(PoseA, 10)

\* Standing, the left elbow found on the left shoulder: the left elbow and
\* left shoulder angles have a zero-length side
PoseFolded == [PoseA EXCEPT ![13] = PoseA[11]]

\* A decoded image: its size in pixels and what the landmarker finds on it
ImgA == [w |-> 100, h |-> 100, pose |-> PoseA]
ImgB == [w |-> 100, h |-> 100, pose |-> PoseB]
ImgBlank == [w |-> 100, h |-> 100, pose |-> NoneList]
Images == {ImgA, ImgB, ImgBlank}

\* cv2.imdecode result for bytes that are no image
NoImage == [w |-> 0, h |-> 0, pose |-> NoneList]

\* ------------------------------------------------------------------------
\* scripts/build_reference.py and the reference table of app.py
\* ------------------------------------------------------------------------

\* One sample of the reference dataset, from the landmarks of its image
ReferenceSample(landmarks) ==
  LET keypoints == [c \in KpIdx |-> landmarks[MEDIAPIPE_INDICES[c]]]
  IN [keypoints |-> normalize_keypoints(keypoints),
      angles |-> compute_joint_angles(keypoints)]

\* build_reference.py lines 150-156: the sample as written to the data file
LabelledSample(label, landmarks) ==
  [pose_label |-> label,
   keypoints |-> ReferenceSample(landmarks).keypoints,
   angles |-> ReferenceSample(landmarks).angles]

\* sorted(vals): insertion of x into the sorted sequence s
RECURSIVE Insert(_, _)
Insert(x, s) ==
  IF s = << >> THEN << x >>
  ELSE IF x <= Head(s) THEN << x >> \o s
  ELSE << Head(s) >> \o Insert(x, Tail(s))

RECURSIVE Sorted(_)
Sorted(vals) ==
  IF vals = << >> THEN << >> ELSE Insert(Head(vals), Sorted(Tail(vals)))

\* The middle of a sorted non-empty sequence: the middle element, or the
\* mean of the two middle elements
MiddleOf(s) ==
  IF Len(s) % 2 = 1 THEN s[(Len(s) + 1) \div 2]
  ELSE (s[Len(s) \div 2] + s[Len(s) \div 2 + 1]) \div 2

\* A faulty variant of Median that takes the mean
Median_Mean(vals) == SumSeq(vals) \div Len(vals)

\* np.median of a non-empty list
Median(vals) == MiddleOf(Sorted(vals))

\* app.py lines 60-66: the samples of one label, in file order
SamplesOf(samples, label) ==
  LET HasLabel(sample) == sample.pose_label = label
  IN SelectSeq(samples, HasLabel)

\* Line 75: [a[key] for a in data["angles"] if a[key] is not None]
DefinedAngles(group, key) ==
  LET IsDefined(v) == v # NoneAngle
  IN SelectSeq([k \in 1..Len(group) |-> group[k].angles[key]], IsDefined)

\* Lines 72-76: the median of the defined values of each angle, or None
MedianAngles(group) ==
  [key \in DOMAIN group[1].angles |->
     IF DefinedAngles(group, key) = << >> THEN NoneAngle
     ELSE Median(DefinedAngles(group, key))]

\* Line 70: np.median(data["keypoints"], axis=0)
MedianKeypoints(group) ==
  [i \in KpIdx |->
     << Median([k \in 1..Len(group) |-> group[k].keypoints[i][1]]),
        Median([k \in 1..Len(group) |-> group[k].keypoints[i][2]]),
        Median([k \in 1..Len(group) |-> group[k].keypoints[i][3]]) >>]

\* Lines 59-81: one entry per label of the samples
AggregateReferences(samples) ==
  [label \in {samples[k].pose_label : k \in 1..Len(samples)} |->
     [keypoints |-> MedianKeypoints(SamplesOf(samples, label)),
      angles |-> MedianAngles(SamplesOf(samples, label))]]

\* The samples of the data file: one image of each of two poses
ReferenceFile ==
  << LabelledSample("tree", PoseA), LabelledSample("plank", PoseB) >>

\* pose_references as loaded at startup: the data file exists, or it does not
LoadedReferences == AggregateReferences(ReferenceFile)
NoReferences == [label \in {} |-> ReferenceSample(PoseA)]
\* A data file built from a dataset directory named "Tree"
CapitalReferences ==
  AggregateReferences(<< LabelledSample("Tree", PoseA) >>)
ReferenceTables == {LoadedReferences, NoReferences, CapitalReferences}

ALL_EXERCISES == {"downdog", "goddess", "plank", "tree", "warrior2"}

\* ------------------------------------------------------------------------
\* Strings: str.lower, str.split, base64.b64decode, cv2.imdecode
\* ------------------------------------------------------------------------
Lower(str) ==
  CASE str = "Tree" -> "tree"
    [] str = "PLANK" -> "plank"
    [] str = "Bogus" -> "bogus"
    [] OTHER -> str

\* "," in frame_data
HasComma(str) == str \in {"data:image/jpeg;base64,QQ=="}

\* frame_data.split(",", 1)[1]
AfterComma(str) ==
  CASE str = "data:image/jpeg;base64,QQ==" -> "QQ=="
    [] OTHER -> str

\* base64.b64decode raises binascii.Error on these
B64Raises(str) == str \in {"%%%"}

\* The bytes base64.b64decode returns
B64Decode(str) ==
  CASE str = "QQ==" -> "jpegA"
    [] str = "Qg==" -> "jpegB"
    [] str = "Qmw=" -> "jpegBlank"
    [] OTHER -> "junk"

\* cv2.imdecode: the image, or NoImage (None) for bytes that are no image
ImDecode(bytes) ==
  CASE bytes = "jpegA" -> ImgA
    [] bytes = "jpegB" -> ImgB
    [] bytes = "jpegBlank" -> ImgBlank
    [] OTHER -> NoImage

\* ------------------------------------------------------------------------
\* Messages a stream client sends (JSON objects)
\* ------------------------------------------------------------------------
Absent == [t |-> "absent", str |-> "", num |-> 0]
JStr(str) == [t |-> "str", str |-> str, num |-> 0]
JNum(n) == [t |-> "num", str |-> "", num |-> n]

ExerciseMsg(v) == [exercise |-> v, frame |-> Absent]
FrameMsg(v) == [exercise |-> Absent, frame |-> v]
EmptyMsg == [exercise |-> Absent, frame |-> Absent]

\* Well-formed messages
GoodMsgs ==
  { ExerciseMsg(JStr("Tree")), ExerciseMsg(JStr("Bogus")),
    FrameMsg(JStr("data:image/jpeg;base64,QQ==")), FrameMsg(JStr("Qg==")),
    FrameMsg(JStr("Qmw=")) }

\* Malformed messages: no required field, a value of the wrong type,
\* bad base64, bytes that are no image
MalformedMsgs ==
  { EmptyMsg, ExerciseMsg(JNum(5)), FrameMsg(JNum(5)),
    FrameMsg(JStr("%%%")), FrameMsg(JStr("anVuaw==")) }

Msgs == GoodMsgs \cup MalformedMsgs

\* Form fields and uploaded files of analyze_image requests
RestLabels == {"Tree", "PLANK", "Bogus"}
RestFiles == {"jpegB", "jpegBlank", "junk"}

\* ------------------------------------------------------------------------
\* State
\* ------------------------------------------------------------------------
VARIABLES
  pose_references,   \* app.pose_references = websocket_handler._pose_references
  engine,            \* websocket_handler._engine: NoneStr or "PoseEngine"
  prev_keypoints,    \* _engine._prev_keypoints
  pc,                \* per connection: where websocket_pose stands
  current_exercise,  \* per connection: the active label
  connected,         \* per connection: the client is still there
  sent,              \* per connection: the send_json calls made, in order
  nrecv,             \* per connection: messages received so far
  queue,             \* _executor: submitted calls not yet started
  worker,            \* _executor: the call its one thread is running
  future,            \* per connection: the finished call's result
  submitted,         \* number of calls submitted to _executor
  started,           \* number of calls the worker thread has started
  last_call,         \* locals of the last finished _process_frame call
  detecting,         \* threads that are inside engine.detect_keypoints
  raced,             \* threads whose detect_keypoints call overlapped another
  rest,              \* analyze_image: the request being served
  rest_resp,         \* analyze_image: the last response
  nrest,             \* analyze_image requests served so far
  applied            \* the last function applied on its own: arguments, result

vars == << pose_references, engine, prev_keypoints, pc, current_exercise,
           connected, sent, nrecv, queue, worker, future,
           submitted, started, last_call, detecting, raced, rest, rest_resp,
           nrest, applied >>

sessionVars == << pc, current_exercise, sent, nrecv >>
executorVars == << queue, worker, future, submitted, started, last_call >>
restVars == << rest, rest_resp, nrest >>

Sessions == 1..NumSessions

NoTask == [s |-> 0, frame |-> NoImage, exercise |-> NoneStr, ticket |-> 0,
           id |-> 0]
NoResult == [done |-> FALSE, result |-> [type |-> "none"], id |-> 0]
NoCall == [s |-> 0, first |-> FALSE, detected |-> NoneList,
           smoothed |-> NoneList]
NoRequest == [phase |-> "idle", exercise |-> NoneStr, contents |-> "",
              frame |-> NoImage]
NoResponse == [status |-> "none"]
NotApplied == [op |-> "none"]

\* Messages received so far over all connections
TotalRecv == SumOver(nrecv, Sessions)

\* The event loop thread is inside a synchronous call of analyze_image
LoopBusy == rest.phase = "detecting"

\* ------------------------------------------------------------------------
\* websocket_handler.py: _process_frame
\* ------------------------------------------------------------------------
\* (the dash of the advisory message is written in ASCII)
NoPoseResult ==
  [type |-> "pose_result", detected |-> FALSE, skeleton_color |-> "red",
   similarity |-> 0, confidence |-> 0,
   issues |-> << "No pose detected - make sure your full body is visible" >>,
   good |-> << >>, keypoints |-> << >>]

\* float(np.mean(valid_confs)) if valid_confs else 0.0
MeanConfidence(keypoints) ==
  LET valid == {i \in KpIdx : keypoints[i][3] >= MIN_CONFIDENCE}
  IN IF valid = {} THEN 0
     ELSE RoundDiv(SumOver([i \in valid |-> keypoints[i][3]], valid),
                   Cardinality(valid))

\* [round(kp[0] / w, 5), round(kp[1] / h, 5), round(kp[2], 4)]
RelativeKps(keypoints, frame) ==
  [i \in KpIdx |-> << RoundDiv(keypoints[i][1] * 1000, frame.w),
                      RoundDiv(keypoints[i][2] * 1000, frame.h),
                      keypoints[i][3] * 100 >>]

\* A faulty variant of SkeletonColor with the threshold at 50
SkeletonColor_AtFifty(similarity) ==
  IF similarity >= 5000 THEN "green" ELSE "red"

SkeletonColor(similarity) == IF similarity >= 7000 THEN "green" ELSE "red"

\* Lines 93-95: feedback_result for the computed similarity
Compared(live_angles, ref_angles, similarity, mean_confidence) ==
  [similarity |-> similarity,
   feedback_result |-> generate_feedback(live_angles, ref_angles, similarity,
                                         mean_confidence)]

\* Lines 76-95: similarity and feedback_result
CompareWithReference(refs, current_exercise_, live_normalized, live_angles, mean_confidence) ==
  IF current_exercise_ # NoneStr /\ current_exercise_ # ""
     /\ current_exercise_ \in DOMAIN refs
  THEN Compared(live_angles, refs[current_exercise_].angles,
                compute_similarity(live_normalized,
                                   refs[current_exercise_].keypoints,
                                   live_angles,
                                   refs[current_exercise_].angles),
                mean_confidence)
  ELSE [similarity |-> 0,
        feedback_result |->
          [similarity |-> 0, confidence |-> mean_confidence,
           issues |-> << "Select an exercise to start pose comparison" >>,
           good |-> << >>]]

\* Lines 97-115: the result dict for the skeleton keypoints
PoseResult(frame, keypoints, similarity, feedback_result) ==
  [type |-> "pose_result", detected |-> TRUE,
   skeleton_color |-> SkeletonColor(similarity),
   similarity |-> feedback_result.similarity,
   confidence |-> feedback_result.confidence,
   issues |-> feedback_result.issues,
   good |-> feedback_result.good,
   keypoints |-> RelativeKps(keypoints, frame)]

\* Lines 97-115, with the call's locals kept beside the result
ProcessCompared(frame, detected, sm, cmp) ==
  [result |-> PoseResult(frame, sm.out, cmp.similarity, cmp.feedback_result),
   prev |-> sm.prev, detected |-> detected, smoothed |-> sm.out]

\* Lines 66-95, for sm = what smooth_pose returned and left behind
ProcessSmoothed(refs, frame, current_exercise_, detected, sm) ==
  ProcessCompared(frame, detected, sm,
                  CompareWithReference(refs, current_exercise_,
                                       normalize_keypoints(sm.out),
                                       compute_joint_angles(sm.out),
                                       MeanConfidence(sm.out)))

\* A faulty variant of ProcessDetected that forgets the smoothing state when
\* no pose is detected
ProcessDetected_Reset(refs, prev, frame, current_exercise_, detected) ==
  IF detected = NoneList
  THEN [result |-> NoPoseResult, prev |-> NoneList, detected |-> NoneList,
        smoothed |-> NoneList]
  ELSE ProcessSmoothed(refs, frame, current_exercise_, detected,
                       smooth_pose(prev, detected))

\* Lines 51-64, for detected = what detect_keypoints returned
ProcessDetected(refs, prev, frame, current_exercise_, detected) ==
  IF detected = NoneList
  THEN [result |-> NoPoseResult, prev |-> prev, detected |-> NoneList,
        smoothed |-> NoneList]
  ELSE ProcessSmoothed(refs, frame, current_exercise_, detected,
                       smooth_pose(prev, detected))

\* _process_frame on the shared engine, given what the landmarker returned:
\* the result dict, the engine's smoothing state afterwards, and the
\* skeleton before and after smooth_pose
ProcessFrame(refs, prev, frame, current_exercise_, pose_landmarks) ==
  ProcessDetected(refs, prev, frame, current_exercise_,
                  detect_keypoints(frame, pose_landmarks))

\* ------------------------------------------------------------------------
\* The landmarker (MediaPipe PoseLandmarker.detect)
\* ------------------------------------------------------------------------

\* What one detect call can return for a frame: the pose on the frame, or,
\* when the call overlapped another call on the same landmarker (it is not
\* safe for concurrent use), anything the landmarker can return
DetectOutcomes(thread, frame) ==
  IF thread \in raced THEN {PoseA, PoseB, NoneList} ELSE {frame.pose}

\* A thread enters detect_keypoints
EnterDetect(thread) ==
  /\ detecting' = detecting \cup {thread}
  /\ raced' = IF detecting # {} THEN raced \cup detecting \cup {thread}
                                ELSE raced \ {thread}

\* A thread leaves detect_keypoints
LeaveDetect(thread) ==
  /\ detecting' = detecting \ {thread}
  /\ raced' = raced \ {thread}

\* ------------------------------------------------------------------------
\* Initial state: the module-level state after import
\* ------------------------------------------------------------------------
Init ==
  /\ pose_references = LoadedReferences
  /\ engine = NoneStr
  /\ prev_keypoints = NoneList
  /\ pc = [s \in Sessions |-> "idle"]
  /\ current_exercise = [s \in Sessions |-> NoneStr]
  /\ connected = [s \in Sessions |-> FALSE]
  /\ sent = [s \in Sessions |-> << >>]
  /\ nrecv = [s \in Sessions |-> 0]
  /\ queue = << >>
  /\ worker = NoTask
  /\ future = [s \in Sessions |-> NoResult]
  /\ submitted = 0
  /\ started = 0
  /\ last_call = NoCall
  /\ detecting = {}
  /\ raced = {}
  /\ rest = NoRequest
  /\ rest_resp = NoResponse
  /\ nrest = 0
  /\ applied = NotApplied

\* ------------------------------------------------------------------------
\* websocket_handler.py: websocket_pose
\* ------------------------------------------------------------------------

\* await websocket.send_json(msg); id is the frame the message answers
SendJson(s, msg, id) ==
  sent' = [sent EXCEPT ![s] =
             Append(@, [msg |-> msg, delivered |-> connected[s], id |-> id])]

\* A faulty variant of Connect that reports the missing model and then
\* enters the message loop all the same
Connect_NoReturn(s, ok) ==
  /\ pc[s] = "idle"
  /\ IF s = 1 THEN TRUE ELSE pc[s - 1] # "idle"
  /\ ~LoopBusy
  /\ connected' = [connected EXCEPT ![s] = TRUE]
  /\ pc' = [pc EXCEPT ![s] = "recv"]
  /\ IF engine # NoneStr
     THEN UNCHANGED << engine, prev_keypoints, sent >>
     ELSE IF ok
     THEN /\ engine' = "PoseEngine"
          /\ prev_keypoints' = NoneList
          /\ UNCHANGED sent
     ELSE /\ sent' = [sent EXCEPT ![s] =
                        Append(@, [msg |-> [type |-> "error",
                                            message |-> "No PoseLandmarker model found"],
                                   delivered |-> TRUE, id |-> 0])]
          /\ UNCHANGED << engine, prev_keypoints >>
  /\ UNCHANGED << applied, pose_references, current_exercise, nrecv, executorVars,
                  detecting, raced, restVars >>

\* Lines 119-134: a client opens the stream; websocket.accept(), then
\* engine = _get_engine(), with the error path when the PoseEngine cannot be
\* constructed (ok = FALSE: no model file is found).  Connections are
\* numbered in the order they are opened.
Connect(s, ok) ==
  /\ pc[s] = "idle"
  /\ IF s = 1 THEN TRUE ELSE pc[s - 1] # "idle"
  /\ ~LoopBusy
  /\ connected' = [connected EXCEPT ![s] = TRUE]
  /\ IF engine # NoneStr
     THEN /\ pc' = [pc EXCEPT ![s] = "recv"]
          /\ UNCHANGED << engine, prev_keypoints, sent >>
     ELSE IF ok
     THEN /\ engine' = "PoseEngine"
          /\ prev_keypoints' = NoneList
          /\ pc' = [pc EXCEPT ![s] = "recv"]
          /\ UNCHANGED sent
     ELSE /\ sent' = [sent EXCEPT ![s] =
                        Append(@, [msg |-> [type |-> "error",
                                            message |-> "No PoseLandmarker model found"],
                                   delivered |-> TRUE, id |-> 0])]
          /\ pc' = [pc EXCEPT ![s] = "init_failed"]
          /\ UNCHANGED << engine, prev_keypoints >>
  /\ UNCHANGED << applied, pose_references, current_exercise, nrecv, executorVars,
                  detecting, raced, restVars >>

\* A faulty variant of HandleExercise that stores the label as received
HandleExercise_Raw(s, m) ==
  IF m.exercise.t # "str"
  THEN /\ pc' = [pc EXCEPT ![s] = "crashed"]
       /\ UNCHANGED << current_exercise, sent, queue, submitted >>
  ELSE /\ current_exercise' =
            [current_exercise EXCEPT ![s] = m.exercise.str]
       /\ SendJson(s, [type |-> "session_started",
                       exercise |-> m.exercise.str], 0)
       /\ UNCHANGED << pc, queue, submitted >>

\* Lines 141-147: a message with an "exercise" field
HandleExercise(s, m) ==
  IF m.exercise.t # "str"
  THEN \* data["exercise"].lower() raises: the outer handler ends the session
       /\ pc' = [pc EXCEPT ![s] = "crashed"]
       /\ UNCHANGED << current_exercise, sent, queue, submitted >>
  ELSE /\ current_exercise' =
            [current_exercise EXCEPT ![s] = Lower(m.exercise.str)]
       /\ SendJson(s, [type |-> "session_started",
                       exercise |-> Lower(m.exercise.str)], 0)
       /\ UNCHANGED << pc, queue, submitted >>

\* Lines 153-172: a message with a "frame" field and no "exercise" field
HandleFrame(s, m) ==
  IF m.frame.t # "str"
  THEN \* "," in frame_data raises: the outer handler ends the session
       /\ pc' = [pc EXCEPT ![s] = "crashed"]
       /\ UNCHANGED << current_exercise, sent, queue, submitted >>
  ELSE LET frame_data == IF HasComma(m.frame.str)
                         THEN AfterComma(m.frame.str) ELSE m.frame.str
           frame == ImDecode(B64Decode(frame_data))
       IN IF B64Raises(frame_data) \/ frame = NoImage
          THEN UNCHANGED << pc, current_exercise, sent, queue, submitted >>
          ELSE \* loop.run_in_executor(_executor, _process_frame, ...)
               /\ queue' = Append(queue,
                                  [s |-> s, frame |-> frame,
                                   exercise |-> current_exercise[s],
                                   ticket |-> submitted + 1,
                                   id |-> nrecv[s] + 1])
               /\ submitted' = submitted + 1
               /\ pc' = [pc EXCEPT ![s] = "wait"]
               /\ UNCHANGED << current_exercise, sent >>

\* Lines 138-176: data = await websocket.receive_json() returns m; its
\* handling up to the next await
ReceiveMessage(s, m) ==
  /\ pc[s] = "recv"
  /\ ~LoopBusy
  /\ connected[s]
  /\ TotalRecv < MaxMsgs
  /\ nrecv' = [nrecv EXCEPT ![s] = @ + 1]
  /\ IF m.exercise.t # "absent" THEN HandleExercise(s, m)
     ELSE IF m.frame.t = "absent"
     THEN UNCHANGED << pc, current_exercise, sent, queue, submitted >>
     ELSE HandleFrame(s, m)
  /\ UNCHANGED << applied, pose_references, engine, prev_keypoints, connected, worker,
                  future, started, last_call, detecting, raced, restVars >>

\* Lines 178-179: receive_json raises WebSocketDisconnect
ReceiveDisconnect(s) ==
  /\ pc[s] = "recv"
  /\ ~LoopBusy
  /\ ~connected[s]
  /\ pc' = [pc EXCEPT ![s] = "disconnected"]
  /\ UNCHANGED << applied, pose_references, engine, prev_keypoints,
                  current_exercise, connected, sent, nrecv, executorVars,
                  detecting, raced, restVars >>

\* Lines 170-176: the awaited call has finished; send its result (a send
\* that raises is caught and the loop continues)
Resume(s) ==
  /\ pc[s] = "wait"
  /\ ~LoopBusy
  /\ future[s].done
  /\ SendJson(s, future[s].result, future[s].id)
  /\ future' = [future EXCEPT ![s] = NoResult]
  /\ pc' = [pc EXCEPT ![s] = "recv"]
  /\ UNCHANGED << applied, pose_references, engine, prev_keypoints,
                  current_exercise, connected, nrecv, queue, worker,
                  submitted, started, last_call, detecting, raced, restVars >>

\* The client goes away: the transport is closed, so receive_json has no
\* further message of it to return and send_json reaches nobody
Disconnect(s) ==
  /\ connected[s]
  /\ pc[s] \in {"recv", "wait"}
  /\ connected' = [connected EXCEPT ![s] = FALSE]
  /\ UNCHANGED << applied, pose_references, engine, prev_keypoints, sessionVars,
                  executorVars, detecting, raced, restVars >>

\* ------------------------------------------------------------------------
\* _executor = ThreadPoolExecutor(max_workers=1)
\* ------------------------------------------------------------------------

\* A faulty variant of WorkerStart that takes the newest submitted call
WorkerStart_Newest ==
  /\ worker = NoTask
  /\ queue # << >>
  /\ worker' = queue[Len(queue)]
  /\ queue' = SubSeq(queue, 1, Len(queue) - 1)
  /\ started' = started + 1
  /\ EnterDetect("worker")
  /\ UNCHANGED << applied, pose_references, engine, prev_keypoints, sessionVars,
                  connected, future, submitted, last_call, restVars >>

\* The worker thread takes the oldest submitted call and enters
\* _process_frame, which starts with engine.detect_keypoints(frame)
WorkerStart ==
  /\ worker = NoTask
  /\ queue # << >>
  /\ worker' = Head(queue)
  /\ queue' = Tail(queue)
  /\ started' = started + 1
  /\ EnterDetect("worker")
  /\ UNCHANGED << applied, pose_references, engine, prev_keypoints, sessionVars,
                  connected, future, submitted, last_call, restVars >>

\* The worker's call returned r: the engine's state after it, the future's
\* result, and the call's locals
WorkerReturn(r) ==
  /\ prev_keypoints' = r.prev
  /\ future' = [future EXCEPT ![worker.s] =
                  [done |-> TRUE, result |-> r.result, id |-> worker.id]]
  /\ last_call' = [s |-> worker.s,
                   first |-> ~\E k \in 1..Len(sent[worker.s]) :
                                /\ sent[worker.s][k].msg.type = "pose_result"
                                /\ sent[worker.s][k].msg.detected,
                   detected |-> r.detected, smoothed |-> r.smoothed]

\* A faulty variant of WorkerFinish that drops the call of a connection whose
\* client is gone instead of completing it
WorkerFinish_Abandon(pose_landmarks) ==
  /\ worker # NoTask
  /\ pose_landmarks \in DetectOutcomes("worker", worker.frame)
  /\ IF connected[worker.s]
     THEN WorkerReturn(ProcessFrame(pose_references, prev_keypoints,
                                    worker.frame, worker.exercise,
                                    pose_landmarks))
     ELSE UNCHANGED << prev_keypoints, future, last_call >>
  /\ worker' = NoTask
  /\ LeaveDetect("worker")
  /\ UNCHANGED << applied, pose_references, engine, sessionVars, connected, queue,
                  submitted, started, restVars >>

\* detect_keypoints returns and the rest of _process_frame runs; the result
\* becomes the awaited future's result
WorkerFinish(pose_landmarks) ==
  /\ worker # NoTask
  /\ pose_landmarks \in DetectOutcomes("worker", worker.frame)
  /\ WorkerReturn(ProcessFrame(pose_references, prev_keypoints, worker.frame,
                               worker.exercise, pose_landmarks))
  /\ worker' = NoTask
  /\ LeaveDetect("worker")
  /\ UNCHANGED << applied, pose_references, engine, sessionVars, connected, queue,
                  submitted, started, restVars >>

\* ------------------------------------------------------------------------
\* app.py: analyze_image
\* ------------------------------------------------------------------------

\* round(x, 1) of a value in hundredths
Round1(x) == RoundDiv(x, 10) * 10

\* round(v, 1) if v else None
RoundOrNone(v) == IF v = NoneAngle \/ v = 0 THEN NoneAngle ELSE Round1(v)

\* Lines 200-210: the angle-by-angle deviation breakdown
AngleDeviations(live_angles, ref_angles) ==
  LET names == {n \in DOMAIN live_angles :
                  /\ GetAngle(ref_angles, n) # NoneAngle
                  /\ live_angles[n] # NoneAngle}
  IN [n \in names |->
        [live |-> Round1(live_angles[n]),
         reference |-> Round1(ref_angles[n]),
         deviation |-> Round1(Abs(live_angles[n] - ref_angles[n])),
         status |-> IF Abs(live_angles[n] - ref_angles[n]) <= 2500
                    THEN "correct" ELSE "incorrect"]]

\* Lines 145-149: the message text interpolates the label and
\* list(pose_references.keys()); the two are kept as fields of the record
NotFoundResponse(exercise) ==
  [status |-> "error", message |-> "Exercise not found",
   exercise |-> exercise, available |-> DOMAIN pose_references]

DecodeErrorResponse ==
  [status |-> "error",
   message |-> "Could not decode image. Please upload a valid JPEG/PNG."]

\* Lines 163-179
NoPoseResponse ==
  [status |-> "ok", detected |-> FALSE,
   message |-> "No pose detected. Make sure your full body is visible in the image.",
   similarity |-> 0, keypoint_similarity |-> 0, angle_similarity |-> 0,
   confidence |-> 0, skeleton_color |-> "red",
   issues |-> << "No pose detected - make sure your full body is visible" >>,
   good |-> << >>, keypoints |-> << >>,
   live_angles |-> [n \in {} |-> 0], reference_angles |-> [n \in {} |-> 0],
   angle_deviations |-> [n \in {} |-> 0]]

\* Lines 200-236: the response dict
BuildResponse(exercise, frame, keypoints, live_angles, ref_angles, mean_confidence, kp_score, angle_score, overall_similarity, feedback) ==
  [status |-> "ok", detected |-> TRUE, exercise |-> exercise,
   similarity |-> overall_similarity,
   keypoint_similarity |-> Round1(kp_score),
   angle_similarity |-> Round1(angle_score),
   confidence |-> mean_confidence,
   skeleton_color |-> SkeletonColor(overall_similarity),
   issues |-> feedback.issues, good |-> feedback.good,
   keypoints |-> RelativeKps(keypoints, frame),
   live_angles |-> [n \in DOMAIN live_angles |-> RoundOrNone(live_angles[n])],
   reference_angles |-> [n \in DOMAIN ref_angles |->
                           RoundOrNone(ref_angles[n])],
   angle_deviations |-> AngleDeviations(live_angles, ref_angles)]

\* Lines 197-198: feedback
AnalyzeScored(exercise, frame, keypoints, live_angles, ref_angles, mean_confidence, kp_score, angle_score, overall_similarity) ==
  BuildResponse(exercise, frame, keypoints, live_angles, ref_angles,
                mean_confidence, kp_score, angle_score, overall_similarity,
                generate_feedback(live_angles, ref_angles, overall_similarity,
                                  mean_confidence))

\* Lines 189-195: ref and the similarity scores
AnalyzePrepared(exercise, frame, keypoints, live_angles, live_normalized, mean_confidence, ref) ==
  AnalyzeScored(exercise, frame, keypoints, live_angles, ref.angles,
                mean_confidence,
                compute_keypoint_similarity(live_normalized, ref.keypoints),
                compute_angle_similarity(live_angles, ref.angles),
                compute_similarity(live_normalized, ref.keypoints,
                                   live_angles, ref.angles))

\* Lines 181-236: the response for a detected pose
AnalyzeResponse(exercise, frame, keypoints) ==
  AnalyzePrepared(exercise, frame, keypoints,
                  compute_joint_angles(keypoints),
                  normalize_keypoints(keypoints), MeanConfidence(keypoints),
                  pose_references[exercise])

\* A faulty variant of AnalyzeImage that constructs the engine before it
\* checks the label and the image
AnalyzeImage_EngineFirst(form_exercise, contents, ok) ==
  /\ ~LoopBusy
  /\ nrest < MaxRest
  /\ nrest' = nrest + 1
  /\ LET exercise == Lower(form_exercise)
         frame == ImDecode(contents)
         done == [phase |-> "done", exercise |-> form_exercise,
                  contents |-> contents, frame |-> frame]
     IN IF engine = NoneStr /\ ~ok
        THEN /\ rest_resp' = [status |-> "exception"]
             /\ rest' = done
             /\ UNCHANGED << engine, prev_keypoints, detecting, raced >>
        ELSE /\ engine' = "PoseEngine"
             /\ prev_keypoints' = IF engine = NoneStr THEN NoneList
                                                      ELSE prev_keypoints
             /\ IF exercise \notin DOMAIN pose_references
                THEN /\ rest_resp' = NotFoundResponse(exercise)
                     /\ rest' = done
                     /\ UNCHANGED << detecting, raced >>
                ELSE IF frame = NoImage
                THEN /\ rest_resp' = DecodeErrorResponse
                     /\ rest' = done
                     /\ UNCHANGED << detecting, raced >>
                ELSE /\ rest' = [done EXCEPT !.phase = "detecting"]
                     /\ EnterDetect("loop")
                     /\ UNCHANGED rest_resp
  /\ UNCHANGED << applied, pose_references, sessionVars, connected, executorVars >>

\* Lines 143-161: a request arrives; the label and the image are checked,
\* the engine is fetched (ok = FALSE: it cannot be constructed) and the
\* event loop thread enters engine.detect_keypoints(frame)
AnalyzeImage(form_exercise, contents, ok) ==
  /\ ~LoopBusy
  /\ nrest < MaxRest
  /\ nrest' = nrest + 1
  /\ LET exercise == Lower(form_exercise)
         frame == ImDecode(contents)
         done == [phase |-> "done", exercise |-> form_exercise,
                  contents |-> contents, frame |-> frame]
     IN IF exercise \notin DOMAIN pose_references
        THEN /\ rest_resp' = NotFoundResponse(exercise)
             /\ rest' = done
             /\ UNCHANGED << engine, prev_keypoints, detecting, raced >>
        ELSE IF frame = NoImage
        THEN /\ rest_resp' = DecodeErrorResponse
             /\ rest' = done
             /\ UNCHANGED << engine, prev_keypoints, detecting, raced >>
        ELSE IF engine = NoneStr /\ ~ok
        THEN \* _get_engine() raises: the request fails
             /\ rest_resp' = [status |-> "exception"]
             /\ rest' = done
             /\ UNCHANGED << engine, prev_keypoints, detecting, raced >>
        ELSE /\ engine' = "PoseEngine"
             /\ prev_keypoints' = IF engine = NoneStr THEN NoneList
                                                      ELSE prev_keypoints
             /\ rest' = [done EXCEPT !.phase = "detecting"]
             /\ EnterDetect("loop")
             /\ UNCHANGED rest_resp
  /\ UNCHANGED << applied, pose_references, sessionVars, connected, executorVars >>

\* Lines 161-236: detect_keypoints returns on the event loop thread and the
\* response is built
AnalyzeReturn(pose_landmarks) ==
  /\ rest.phase = "detecting"
  /\ pose_landmarks \in DetectOutcomes("loop", rest.frame)
  /\ rest_resp' = IF detect_keypoints(rest.frame, pose_landmarks) = NoneList
                  THEN NoPoseResponse
                  ELSE AnalyzeResponse(Lower(rest.exercise), rest.frame,
                         detect_keypoints(rest.frame, pose_landmarks))
  /\ rest' = [rest EXCEPT !.phase = "done"]
  /\ LeaveDetect("loop")
  /\ nrest' = nrest
  /\ UNCHANGED << applied, pose_references, engine, prev_keypoints, sessionVars,
                  connected, executorVars >>

\* ------------------------------------------------------------------------
\* Specification
\* ------------------------------------------------------------------------
Next ==
  \/ \E s \in Sessions, ok \in BOOLEAN : Connect(s, ok)
  \/ \E s \in Sessions, m \in Msgs : ReceiveMessage(s, m)
  \/ \E s \in Sessions : ReceiveDisconnect(s)
  \/ \E s \in Sessions : Resume(s)
  \/ \E s \in Sessions : Disconnect(s)
  \/ WorkerStart
  \/ \E p \in {PoseA, PoseB, NoneList} : WorkerFinish(p)
  \/ \E l \in RestLabels, c \in RestFiles, ok \in BOOLEAN :
       AnalyzeImage(l, c, ok)
  \/ \E p \in {PoseA, PoseB, NoneList} : AnalyzeReturn(p)

Spec == Init /\ [][Next]_vars

\* ------------------------------------------------------------------------
\* The functions applied on their own, once, to arguments drawn from small
\* sets; applied records the call
\* ------------------------------------------------------------------------
programVars == << pose_references, engine, prev_keypoints, pc,
                  current_exercise, connected, sent, nrecv, queue, worker,
                  future, submitted, started, last_call, detecting, raced,
                  rest, rest_resp, nrest >>

\* Component scores (hundredths): the ends, the neutral 50, values that
\* round up and down, and every multiple of 12.5
ScoreGrid ==
  {k * 1250 : k \in 0..8} \cup {1, 49, 3333, 6667, 9951, 9999}

\* similarity.py lines 104-105 on the component scores
ApplyFinalScore(kp_score, angle_score) ==
  /\ applied = NotApplied
  /\ applied' = [op |-> "FinalScore", kp_score |-> kp_score,
                 angle_score |-> angle_score,
                 out |-> FinalScore(kp_score, angle_score)]
  /\ UNCHANGED programVars

\* The record of one compute_similarity call
SimilarityCall(live_kps, ref_kps, live_angles, ref_angles) ==
  [op |-> "compute_similarity",
   kp_score |-> compute_keypoint_similarity(live_kps, ref_kps),
   angle_score |-> compute_angle_similarity(live_angles, ref_angles),
   out |-> compute_similarity(live_kps, ref_kps, live_angles, ref_angles)]

SimilarityOf(keypoints, ref) ==
  SimilarityCall(normalize_keypoints(keypoints), ref.keypoints,
                 compute_joint_angles(keypoints), ref.angles)

\* compute_similarity of the skeleton of the landmarks against a reference
ApplySimilarity(landmarks, label) ==
  /\ applied = NotApplied
  /\ applied' = SimilarityOf(KeypointsOf(landmarks, 100, 100),
                             pose_references[label])
  /\ UNCHANGED programVars

ScoreNext ==
  \/ \E kp_score \in ScoreGrid, angle_score \in ScoreGrid :
       ApplyFinalScore(kp_score, angle_score)
  \/ \E landmarks \in {PoseA, PoseB, PoseLow, PoseFolded},
        label \in DOMAIN LoadedReferences :
       ApplySimilarity(landmarks, label)

ScoreSpec == Init /\ [][ScoreNext]_vars

\* Angles (hundredths of a degree) around a reference of 90 degrees: the
\* differences -26, -25.01, -25, -20, 0, 20, 25, 25.01, 26, and None
LiveAngleValues ==
  {6400, 6499, 6500, 7000, 9000, 11000, 11500, 11501, 11600, NoneAngle}

\* The angle dict with value v at the joint name and rest at the others
AnglesWith(name, v, rest_) ==
  [n \in DOMAIN ANGLE_DEFINITIONS |-> IF n = name THEN v ELSE rest_]

\* generate_feedback on dicts that differ at one joint
ApplyFeedback(name, live_val, ref_val, live_rest, ref_rest) ==
  /\ applied = NotApplied
  /\ applied' =
       [op |-> "generate_feedback",
        live_angles |-> AnglesWith(name, live_val, live_rest),
        ref_angles |-> AnglesWith(name, ref_val, ref_rest),
        out |-> generate_feedback(AnglesWith(name, live_val, live_rest),
                                  AnglesWith(name, ref_val, ref_rest),
                                  8000, 90)]
  /\ UNCHANGED programVars

FeedbackNext ==
  \E name \in DOMAIN ANGLE_DEFINITIONS, live_val \in LiveAngleValues,
     ref_val \in {9000, NoneAngle}, live_rest \in {9000, 12000, NoneAngle},
     ref_rest \in {9000, NoneAngle} :
    ApplyFeedback(name, live_val, ref_val, live_rest, ref_rest)

FeedbackSpec == Init /\ [][FeedbackNext]_vars

\* The largest difference of two angles, 180 degrees
MaxDiff == 18000

\* similarity.py lines 64-74 on the absolute difference diff
ApplyAngleScore(diff) ==
  /\ applied = NotApplied
  /\ applied' = [op |-> "AngleScore", diff |-> diff, out |-> AngleScore(diff)]
  /\ UNCHANGED programVars

\* compute_angle_similarity on dicts that differ at one joint
ApplyAngleSimilarity(name, live_val, ref_val, live_rest, ref_rest) ==
  /\ applied = NotApplied
  /\ applied' =
       [op |-> "compute_angle_similarity",
        live_angles |-> AnglesWith(name, live_val, live_rest),
        ref_angles |-> AnglesWith(name, ref_val, ref_rest),
        out |-> compute_angle_similarity(
                  AnglesWith(name, live_val, live_rest),
                  AnglesWith(name, ref_val, ref_rest))]
  /\ UNCHANGED programVars

AngleNext ==
  \/ \E diff \in 0..MaxDiff : ApplyAngleScore(diff)
  \/ \E name \in DOMAIN ANGLE_DEFINITIONS, live_val \in LiveAngleValues,
        ref_val \in {9000, NoneAngle}, live_rest \in {0, 9000, NoneAngle},
        ref_rest \in {4500, 18000, NoneAngle} :
       ApplyAngleSimilarity(name, live_val, ref_val, live_rest, ref_rest)

AngleSpec == Init /\ [][AngleNext]_vars

\* Samples in a data file
MaxSamples == 4

\* A sample of the data file with the left elbow angle v
FileSample(label, v) ==
  [pose_label |-> label,
   keypoints |-> ReferenceSample(PoseA).keypoints,
   angles |-> AnglesWith("left_elbow", v, 9000)]

FileSamples ==
  {FileSample(label, v) : label \in {"tree", "plank"},
                          v \in {1000, 10000, NoneAngle}}

\* app.py lines 59-81 on the samples of a data file
ApplyAggregate(samples) ==
  /\ applied = NotApplied
  /\ applied' = [op |-> "aggregate", samples |-> samples,
                 out |-> AggregateReferences(samples)]
  /\ UNCHANGED programVars

AggregateNext ==
  \E n \in 1..MaxSamples : \E samples \in [1..n -> FileSamples] :
    ApplyAggregate(samples)

AggregateSpec == Init /\ [][AggregateNext]_vars

\* smooth_pose calls made on one engine
MaxCalls == 3

\* A detected skeleton with every keypoint at (x, x), the keypoints in low
\* seen with confidence 0.2 and the others with 0.9
Skeleton(x, low) ==
  [i \in KpIdx |-> << x, x, IF i \in low THEN 20 ELSE 90 >>]

Skeletons == {Skeleton(x, low) : x \in {1000, 2000, 5000}, low \in {{}, {9}}}

\* PoseEngine.__init__
Construct ==
  /\ engine = NoneStr
  /\ engine' = "PoseEngine"
  /\ prev_keypoints' = NoneList
  /\ UNCHANGED << applied, pose_references, sessionVars, connected,
                  executorVars, detecting, raced, restVars >>

\* The record of the n-th smooth_pose call, which returned sm
SmoothCall(n, before, current, sm) ==
  [op |-> "smooth_pose", n |-> n, before |-> before, current |-> current,
   out |-> sm.out]

\* engine.smooth_pose(current)
SmoothPose(current) ==
  /\ engine # NoneStr
  /\ IF applied = NotApplied THEN TRUE ELSE applied.n < MaxCalls
  /\ prev_keypoints' = smooth_pose(prev_keypoints, current).prev
  /\ applied' = SmoothCall(IF applied = NotApplied THEN 1 ELSE applied.n + 1,
                           prev_keypoints, current,
                           smooth_pose(prev_keypoints, current))
  /\ UNCHANGED << pose_references, engine, sessionVars, connected,
                  executorVars, detecting, raced, restVars >>

SmoothNext ==
  \/ Construct
  \/ \E current \in Skeletons : SmoothPose(current)

SmoothSpec == Init /\ [][SmoothNext]_vars

\* Widths and heights of images, in pixels
ImageSizes == {40, 80, 100, 120, 160, 200}

\* websocket_handler.py lines 67-70 (app.py lines 182-183): what the live
\* pipeline compares with a reference
LiveSample(keypoints) ==
  [keypoints |-> normalize_keypoints(keypoints),
   angles |-> compute_joint_angles(keypoints)]

\* The landmarks found on an image of w by h pixels, as build_reference.py
\* stores them and as the live pipeline sees them
ApplyReferenceAndLive(landmarks, w, h) ==
  /\ applied = NotApplied
  /\ applied' = [op |-> "reference_and_live", w |-> w, h |-> h,
                 reference |-> ReferenceSample(landmarks),
                 live |-> LiveSample(KeypointsOf(landmarks, w, h))]
  /\ UNCHANGED programVars

\* The record of the analyze_image response for the detected keypoints
AnalyzeCall(exercise, frame, keypoints) ==
  [op |-> "analyze_image", exercise |-> exercise,
   angles |-> compute_joint_angles(keypoints),
   out |-> AnalyzeResponse(exercise, frame, keypoints)]

\* app.py lines 181-236 for a known label and an image with a pose
ApplyAnalyzeResponse(exercise, frame) ==
  /\ applied = NotApplied
  /\ applied' = AnalyzeCall(exercise, frame,
                            KeypointsOf(frame.pose, frame.w, frame.h))
  /\ UNCHANGED programVars

PipelineNext ==
  \/ \E landmarks \in {PoseA, PoseB, PoseLow, PoseFolded},
        w \in ImageSizes, h \in ImageSizes :
       ApplyReferenceAndLive(landmarks, w, h)
  \/ \E exercise \in DOMAIN LoadedReferences,
        landmarks \in {PoseA, PoseB, PoseLow, PoseFolded} :
       ApplyAnalyzeResponse(exercise,
                            [w |-> 100, h |-> 100, pose |-> landmarks])

PipelineSpec == Init /\ [][PipelineNext]_vars

\* ------------------------------------------------------------------------
\* app.py: get_exercises, start_session, analyze_image over the reference
\* tables the startup code can load
\* ------------------------------------------------------------------------

\* Lines 101-104: the response of GET /exercises
get_exercises ==
  [exercises |-> IF DOMAIN pose_references # {} THEN DOMAIN pose_references
                                               ELSE ALL_EXERCISES]

\* Lines 108-123: the response of POST /start_session
start_session(request_exercise) ==
  IF Lower(request_exercise) \notin DOMAIN pose_references
  THEN NotFoundResponse(Lower(request_exercise))
  ELSE [status |-> "ok", exercise |-> Lower(request_exercise),
        reference_angles |->
          pose_references[Lower(request_exercise)].angles]

\* Labels clients send
ApiLabels == {"tree", "Tree", "plank", "downdog", "Bogus"}

GetExercises ==
  /\ ~LoopBusy
  /\ rest' = [NoRequest EXCEPT !.phase = "done"]
  /\ rest_resp' = get_exercises
  /\ UNCHANGED << applied, pose_references, engine, prev_keypoints,
                  sessionVars, connected, executorVars, detecting, raced,
                  nrest >>

StartSession(request_exercise) ==
  /\ ~LoopBusy
  /\ rest' = [NoRequest EXCEPT !.phase = "done",
                               !.exercise = request_exercise]
  /\ rest_resp' = start_session(request_exercise)
  /\ UNCHANGED << applied, pose_references, engine, prev_keypoints,
                  sessionVars, connected, executorVars, detecting, raced,
                  nrest >>

\* The state after import, for each table the startup code can load
ApiInit ==
  /\ pose_references \in ReferenceTables
  /\ engine = NoneStr
  /\ prev_keypoints = NoneList
  /\ pc = [s \in Sessions |-> "idle"]
  /\ current_exercise = [s \in Sessions |-> NoneStr]
  /\ connected = [s \in Sessions |-> FALSE]
  /\ sent = [s \in Sessions |-> << >>]
  /\ nrecv = [s \in Sessions |-> 0]
  /\ queue = << >>
  /\ worker = NoTask
  /\ future = [s \in Sessions |-> NoResult]
  /\ submitted = 0
  /\ started = 0
  /\ last_call = NoCall
  /\ detecting = {}
  /\ raced = {}
  /\ rest = NoRequest
  /\ rest_resp = NoResponse
  /\ nrest = 0
  /\ applied = NotApplied

ApiNext ==
  \/ GetExercises
  \/ \E request_exercise \in ApiLabels : StartSession(request_exercise)
  \/ \E l \in ApiLabels, c \in RestFiles, ok \in BOOLEAN :
       AnalyzeImage(l, c, ok)
  \/ \E p \in {PoseA, PoseB, NoneList} : AnalyzeReturn(p)

ApiSpec == ApiInit /\ [][ApiNext]_vars

\* ------------------------------------------------------------------------
\* Properties
\* ------------------------------------------------------------------------

\* Calls of connection s that are submitted and not yet answered
InFlight(s) ==
  Cardinality({i \in 1..Len(queue) : queue[i].s = s})
  + (IF worker.s = s THEN 1 ELSE 0)
  + (IF future[s].done THEN 1 ELSE 0)

\* The result records sent on connection s, and the frames they answer
IsResult(e) == e.msg.type = "pose_result"
ResultsSent(s) == SelectSeq(sent[s], IsResult)
IsDelivered(e) == e.delivered
Delivered(msgs) == SelectSeq(msgs, IsDelivered)

\* C1: at most one detect_keypoints call on the shared engine runs at any
\* instant, whatever the interleaving of stream frames and analyze_image
\* requests.
C1_OneDetectionAtATime == Cardinality(detecting) <= 1

\* C2: a connection has at most one frame in flight, the frame in flight is
\* the message it read last (the result is sent before the next message is
\* read), its results are sent in the order the frames arrived, and the one
\* worker runs the submitted calls in submission order.
C2_FrameOrder ==
  /\ \A s \in Sessions :
       /\ InFlight(s) <= 1
       /\ pc[s] = "recv" => InFlight(s) = 0
       /\ pc[s] = "wait" => InFlight(s) = 1
       /\ worker.s = s => worker.id = nrecv[s]
       /\ future[s].done => future[s].id = nrecv[s]
       /\ \A i \in 1..Len(queue) : queue[i].s = s => queue[i].id = nrecv[s]
       /\ \A j, k \in 1..Len(ResultsSent(s)) :
            j < k => ResultsSent(s)[j].id < ResultsSent(s)[k].id
  /\ worker # NoTask => worker.ticket = started
  /\ \A i \in 1..Len(queue) : queue[i].ticket = started + i
  /\ submitted = started + Len(queue)

\* C2 witness: one connection has had two frames answered, in order
C2_Witness ==
  \E s \in Sessions :
    /\ Len(ResultsSent(s)) = 2
    /\ ResultsSent(s)[1].id = 1
    /\ ResultsSent(s)[2].id = 2

\* C3: a malformed message is dropped with no response and the session goes
\* on to read the next message.
C3_MalformedDropped ==
  [][\A s \in Sessions, m \in MalformedMsgs :
       ReceiveMessage(s, m) => /\ pc'[s] = "recv"
                               /\ sent'[s] = sent[s]
                               /\ current_exercise'[s] = current_exercise[s]]_vars

\* C4: on the first pose-bearing frame of a connection the detected skeleton
\* is returned unchanged and becomes the smoothing state.
C4_FirstFrameUnsmoothed ==
  (last_call.s # 0 /\ last_call.first /\ last_call.detected # NoneList)
    => /\ last_call.smoothed = last_call.detected
       /\ prev_keypoints = last_call.detected

\* C5: once a connection's client is gone, no further frame of it is
\* submitted and nothing more is delivered on it; a call already handed to
\* the worker ends only by completing, which frees the worker and leaves the
\* queued calls of the other connections in place, ready to be started.
C5_DisconnectStopsDispatch ==
  /\ [][\A s \in Sessions :
          /\ (pc[s] # "idle" /\ ~connected[s]) =>
               /\ \A i \in 1..Len(queue') :
                    queue'[i].s = s => queue'[i].ticket <= submitted
               /\ Delivered(sent'[s]) = Delivered(sent[s])
          /\ (worker.s = s /\ worker' # worker) =>
               /\ future'[s].done
               /\ future'[s].result.type = "pose_result"
               /\ worker' = NoTask
               /\ queue' = queue]_vars
  /\ []((worker = NoTask /\ queue # << >>) => ENABLED WorkerStart)

\* C5 witness: the worker runs a frame of a connection whose client is gone
\* while a frame of another connection waits in the queue
C5_Witness ==
  \E s \in Sessions :
    /\ pc[s] = "wait"
    /\ ~connected[s]
    /\ worker.s = s
    /\ queue # << >>
    /\ Head(queue).s # s

\* C6: a connection on which the engine could not be constructed has been
\* sent exactly one message, the error, has read and submitted nothing, and
\* is closed for good; no connection enters the message loop without an
\* engine; and a connection that has not been opened yet can still be opened.
C6_InitFailure ==
  /\ \A s \in Sessions :
       /\ pc[s] = "init_failed" =>
            /\ Len(sent[s]) = 1
            /\ sent[s][1].msg.type = "error"
            /\ nrecv[s] = 0
            /\ InFlight(s) = 0
            /\ ~ENABLED (\E m \in Msgs : ReceiveMessage(s, m))
       /\ pc[s] \in {"recv", "wait"} => engine # NoneStr
       /\ \A k \in 1..Len(sent[s]) :
            sent[s][k].msg.type = "error" => pc[s] = "init_failed"
  /\ \A s \in Sessions :
       (/\ pc[s] = "idle"
        /\ ~LoopBusy
        /\ \A t \in Sessions : t < s => pc[t] # "idle")
         => ENABLED Connect(s, TRUE)

\* C6 witness: the first connection failed to get an engine and a later one
\* is in its message loop
C6_Witness ==
  /\ NumSessions >= 2
  /\ pc[1] = "init_failed"
  /\ pc[2] = "recv"

\* C7: a control message naming an exercise stores the lower-cased label and
\* is acknowledged, with no call submitted and no engine state touched,
\* whether the label is known or not; and a call made under an unknown label
\* yields an ordinary result record with the comparison skipped.
C7_ExerciseSelection ==
  /\ [][\A s \in Sessions, m \in Msgs :
          (m.exercise.t = "str" /\ ReceiveMessage(s, m)) =>
             /\ current_exercise'[s] = Lower(m.exercise.str)
             /\ current_exercise'[s] \notin {"Tree", "PLANK", "Bogus"}
             /\ sent'[s] = Append(sent[s],
                             [msg |-> [type |-> "session_started",
                                       exercise |-> current_exercise'[s]],
                              delivered |-> TRUE, id |-> 0])
             /\ pc'[s] = "recv"
             /\ UNCHANGED << engine, prev_keypoints, queue, worker, future,
                             submitted, started, detecting >>]_vars
  /\ [](\A s \in Sessions :
          (future[s].done /\ current_exercise[s] \notin DOMAIN pose_references)
            => /\ future[s].result.type = "pose_result"
               /\ pc[s] = "wait"
               /\ future[s].result.similarity = 0
               /\ future[s].result.skeleton_color = "red"
               /\ future[s].result.good = << >>
               /\ future[s].result.detected =>
                    future[s].result.issues
                      = << "Select an exercise to start pose comparison" >>)

\* C7 witness: under the unknown label "bogus" a frame with a pose has been
\* answered with a result record whose comparison was skipped
C7_Witness ==
  \E s \in Sessions :
    /\ current_exercise[s] = "bogus"
    /\ pc[s] = "recv"
    /\ Len(ResultsSent(s)) = 1
    /\ ResultsSent(s)[1].msg.detected
    /\ ResultsSent(s)[1].msg.issues
         = << "Select an exercise to start pose comparison" >>

\* C8: an analyze_image request with an unknown label or an undecodable image
\* is answered with status "error" (listing the table's labels for an unknown
\* label) and leaves the engine, its smoothing state, the detector and the
\* executor untouched.
C8_AnalyzeRejects ==
  [][\A l \in RestLabels, c \in RestFiles, ok \in BOOLEAN :
       (/\ AnalyzeImage(l, c, ok)
        /\ Lower(l) \notin DOMAIN pose_references \/ ImDecode(c) = NoImage)
         => /\ rest_resp'.status = "error"
            /\ Lower(l) \notin DOMAIN pose_references =>
                 rest_resp'.available = DOMAIN pose_references
            /\ rest'.phase = "done"
            /\ UNCHANGED << engine, prev_keypoints, detecting, raced,
                            executorVars >>]_vars

\* C8 witness: a request with an unknown label has been answered with the
\* error that lists the table's labels
C8_Witness ==
  /\ rest.phase = "done"
  /\ rest.exercise = "Bogus"
  /\ rest_resp.status = "error"
  /\ rest_resp.available = {"tree", "plank"}

\* The advisory message of a no-pose record
NoPoseAdvice == << "No pose detected - make sure your full body is visible" >>

\* C9: when the detector returns no pose the outcome is a normal record with
\* detected = false, similarity 0, confidence 0, no keypoints, nothing good
\* and the one advisory issue; in a stream the connection stays in its loop
\* and the smoothing state is the one from before the frame.
C9_NoPose ==
  [][/\ \A s \in Sessions :
          (worker.s = s /\ WorkerFinish(NoneList)) =>
             /\ future'[s].done
             /\ future'[s].result.type = "pose_result"
             /\ future'[s].result.detected = FALSE
             /\ future'[s].result.similarity = 0
             /\ future'[s].result.confidence = 0
             /\ future'[s].result.keypoints = << >>
             /\ future'[s].result.good = << >>
             /\ future'[s].result.issues = NoPoseAdvice
             /\ pc'[s] = "wait"
             /\ prev_keypoints' = prev_keypoints
     /\ AnalyzeReturn(NoneList) =>
             /\ rest_resp'.status = "ok"
             /\ rest_resp'.detected = FALSE
             /\ rest_resp'.similarity = 0
             /\ rest_resp'.confidence = 0
             /\ rest_resp'.keypoints = << >>
             /\ rest_resp'.good = << >>
             /\ rest_resp'.issues = NoPoseAdvice
             /\ prev_keypoints' = prev_keypoints]_vars

\* C9 witness: a frame without a pose was processed when a smoothing state
\* existed, and its no-pose record has been sent
C9_Witness ==
  \E s \in Sessions :
    /\ last_call.s = s
    /\ last_call.detected = NoneList
    /\ prev_keypoints # NoneList
    /\ pc[s] = "recv"
    /\ Len(sent[s]) > 0
    /\ sent[s][Len(sent[s])].msg.type = "pose_result"
    /\ ~sent[s][Len(sent[s])].msg.detected

\* A record's colour is green exactly when its similarity is at least 70
ColourMatches(r) == (r.skeleton_color = "green") <=> (r.similarity >= 7000)

\* C10: in every result record, of the stream or of analyze_image,
\* skeleton_color is "green" exactly when the record's similarity is at
\* least 70, and "red" otherwise.
C10_SkeletonColor ==
  /\ \A s \in Sessions :
       /\ \A k \in 1..Len(sent[s]) :
            IsResult(sent[s][k]) =>
              /\ ColourMatches(sent[s][k].msg)
              /\ sent[s][k].msg.skeleton_color \in {"green", "red"}
       /\ future[s].done =>
            /\ ColourMatches(future[s].result)
            /\ future[s].result.skeleton_color \in {"green", "red"}
  /\ rest_resp.status = "ok" =>
       /\ ColourMatches(rest_resp)
       /\ rest_resp.skeleton_color \in {"green", "red"}

\* C10 witness: a green record and a red record with a detected pose have
\* been sent on a stream
C10_Witness ==
  \E s \in Sessions :
    /\ Len(ResultsSent(s)) = 1
    /\ ResultsSent(s)[1].msg.skeleton_color = "green"
    /\ ResultsSent(s)[1].msg.similarity >= 7000

\* 0.25 * kp_score + 0.75 * angle_score clamped to [0, 100], times 100
ClampedMix100(kp_score, angle_score) ==
  Max(0, Min(1000000, 25 * kp_score + 75 * angle_score))

\* C11: the final score is 0.25 * positional + 0.75 * angle clamped to
\* [0, 100] (to the rounding of one decimal), so it lies in [0, 100]; the
\* components 0, 0 give 0 and 100, 100 give 100.
C11_FinalScoreClamped ==
  applied.op \in {"FinalScore", "compute_similarity"} =>
    /\ applied.out \in 0..10000
    /\ Abs(100 * applied.out
           - ClampedMix100(applied.kp_score, applied.angle_score)) <= 500
    /\ (applied.kp_score = 0 /\ applied.angle_score = 0) => applied.out = 0
    /\ (applied.kp_score = 10000 /\ applied.angle_score = 10000)
         => applied.out = 10000

\* C11 witness: compute_similarity was called where both components fall
\* back to the neutral 50
C11_Witness ==
  /\ applied.op = "compute_similarity"
  /\ applied.kp_score = 5000
  /\ applied.angle_score = 5000
  /\ applied.out = 5000

\* The elements of a sequence
Range(seq) == {seq[k] : k \in 1..Len(seq)}

\* The joints of a generate_feedback call with both angles defined
Comparable(call) ==
  {n \in DOMAIN ANGLE_DEFINITIONS :
     call.live_angles[n] # NoneAngle /\ call.ref_angles[n] # NoneAngle}

\* The one message the classifier owes the comparable joint n
OwedMessage(call, n) ==
  LET diff == call.live_angles[n] - call.ref_angles[n]
  IN IF diff < -2500 THEN ANGLE_ISSUE_MESSAGES[n].too_small
     ELSE IF diff > 2500 THEN ANGLE_ISSUE_MESSAGES[n].too_large
     ELSE GOOD_MESSAGES[n]

\* C12: each joint with both angles defined gets exactly one message, the
\* positive one when |diff| <= 25, "too small" when diff < -25, "too large"
\* when diff > 25 (diff = live - reference); a joint with an undefined angle
\* gets none; so len(good) + len(issues) is the number of comparable joints.
C12_OneMessagePerJoint ==
  applied.op = "generate_feedback" =>
    /\ Len(applied.out.good) + Len(applied.out.issues)
         = Cardinality(Comparable(applied))
    /\ Range(applied.out.good)
         = {OwedMessage(applied, n) : n \in Comparable(applied)}
             \cap {GOOD_MESSAGES[n] : n \in DOMAIN GOOD_MESSAGES}
    /\ Range(applied.out.issues)
         = {OwedMessage(applied, n) : n \in Comparable(applied)}
             \ {GOOD_MESSAGES[n] : n \in DOMAIN GOOD_MESSAGES}

\* C12 witness: one call with a joint too small by 25.01 degrees, other
\* joints within tolerance, and that leaves a joint out
C12_Witness ==
  /\ applied.op = "generate_feedback"
  /\ applied.live_angles["left_knee"] = 6499
  /\ applied.ref_angles["left_knee"] = 9000
  /\ applied.out.issues = << "Left knee bent too much" >>
  /\ Len(applied.out.good) = 7

\* Three times the score the curve assigns to the difference d (hundredths)
Curve3(d) ==
  IF d <= 1500 THEN 30000
  ELSE IF d <= 3000 THEN 3 * (10000 - (d - 1500) * 2)
  ELSE IF d <= 6000 THEN 21000 - (d - 3000) * 4
  ELSE 3 * Max(0, 3000 - (d - 6000))

\* C13: the joint score follows the four-band curve (to the last digit
\* kept), is 100, 70, 30, 15, 0 at 15, 30, 60, 75, 90 degrees, never rises,
\* has no jump and is never negative; the angle score is the mean of the
\* joint scores of the comparable joints, or 50 when there is none.
C13_AngleCurve ==
  /\ applied.op = "AngleScore" =>
       /\ applied.out >= 0
       /\ Abs(3 * applied.out - Curve3(applied.diff)) < 3
       /\ applied.diff = 1500 => applied.out = 10000
       /\ applied.diff = 3000 => applied.out = 7000
       /\ applied.diff = 6000 => applied.out = 3000
       /\ applied.diff = 7500 => applied.out = 1500
       /\ applied.diff >= 9000 => applied.out = 0
       /\ applied.out >= AngleScore(applied.diff + 1)
       /\ applied.out - AngleScore(applied.diff + 1) <= 2
  /\ applied.op = "compute_angle_similarity" =>
       LET names == Comparable(applied)
           total == SumOver([n \in names |->
                               AngleScore(Abs(applied.live_angles[n]
                                              - applied.ref_angles[n]))],
                            names)
       IN IF names = {} THEN applied.out = 5000
          ELSE /\ Cardinality(names) * applied.out <= total
               /\ total < Cardinality(names) * (applied.out + 1)

\* C13 witness: the score 15 at a difference of 75 degrees
C13_Witness ==
  /\ applied.op = "AngleScore"
  /\ applied.diff = 7500
  /\ applied.out = 1500

\* The places in the file of the samples of a label whose angle key is
\* defined
DefinedAt(samples, label, key) ==
  {k \in 1..Len(samples) : /\ samples[k].pose_label = label
                            /\ samples[k].angles[key] # NoneAngle}

\* v is a median of the values at the places K: at most half of them are
\* below it and at most half above it, and it is one of them or the mean of
\* two of them
IsMedian(v, samples, key, K) ==
  /\ 2 * Cardinality({k \in K : samples[k].angles[key] < v}) <= Cardinality(K)
  /\ 2 * Cardinality({k \in K : samples[k].angles[key] > v}) <= Cardinality(K)
  /\ \E j, k \in K :
       v = (samples[j].angles[key] + samples[k].angles[key]) \div 2

\* C14: the aggregation yields one entry per distinct label of the samples;
\* each angle of an entry is the median of the defined values of that
\* label's samples, and is undefined exactly when they are all undefined;
\* 10, 10, 10, 100 aggregate to 10.
C14_MedianPerLabel ==
  applied.op = "aggregate" =>
    /\ DOMAIN applied.out
         = {applied.samples[k].pose_label : k \in 1..Len(applied.samples)}
    /\ \A label \in DOMAIN applied.out, key \in DOMAIN ANGLE_DEFINITIONS :
         IF DefinedAt(applied.samples, label, key) = {}
         THEN applied.out[label].angles[key] = NoneAngle
         ELSE /\ applied.out[label].angles[key] # NoneAngle
              /\ IsMedian(applied.out[label].angles[key], applied.samples,
                          key, DefinedAt(applied.samples, label, key))
    /\ [k \in 1..Len(applied.samples) |->
          applied.samples[k].angles["left_elbow"]]
         = << 1000, 1000, 1000, 10000 >>
       /\ DOMAIN applied.out = {"tree"}
       => applied.out["tree"].angles["left_elbow"] = 1000

\* C14 witness: the samples 10, 10, 10, 100 of one label were aggregated
C14_Witness ==
  /\ applied.op = "aggregate"
  /\ DOMAIN applied.out = {"tree"}
  /\ [k \in 1..Len(applied.samples) |->
        applied.samples[k].angles["left_elbow"]]
       = << 1000, 1000, 1000, 10000 >>
  /\ applied.out["tree"].angles["left_elbow"] = 1000

\* C15: with a previous skeleton, a keypoint whose current confidence is at
\* least 0.3 is returned at 0.6 * current + 0.4 * previous in each
\* coordinate with its current confidence (previous (10,10), current (20,20)
\* give (16,16)); a keypoint below 0.3 is returned as detected.
C15_SmoothBlend ==
  (applied.op = "smooth_pose" /\ applied.before # NoneList) =>
    \A i \in KpIdx :
      IF applied.current[i][3] >= 30
      THEN /\ Abs(10 * applied.out[i][1] - (6 * applied.current[i][1]
                                            + 4 * applied.before[i][1])) <= 5
           /\ Abs(10 * applied.out[i][2] - (6 * applied.current[i][2]
                                            + 4 * applied.before[i][2])) <= 5
           /\ applied.out[i][3] = applied.current[i][3]
           /\ (/\ applied.before[i][1] = 1000 /\ applied.before[i][2] = 1000
               /\ applied.current[i][1] = 2000 /\ applied.current[i][2] = 2000)
                => (applied.out[i][1] = 1600 /\ applied.out[i][2] = 1600)
      ELSE applied.out[i] = applied.current[i]

\* C15 witness: previous (10,10), current (20,20), with keypoint 9 seen
\* below the threshold
C15_Witness ==
  /\ applied.op = "smooth_pose"
  /\ applied.before = Skeleton(1000, {})
  /\ applied.current = Skeleton(2000, {9})
  /\ applied.out[0] = << 1600, 1600, 90 >>
  /\ applied.out[9] = << 2000, 2000, 20 >>

\* C16: after a call in which a keypoint is seen below the threshold, the
\* stored previous position of that keypoint is the one from before the call.
C16_HistoryKept ==
  (applied.op = "smooth_pose" /\ applied.before # NoneList) =>
    \A i \in KpIdx :
      applied.current[i][3] < MIN_CONFIDENCE =>
        /\ prev_keypoints[i][1] = applied.before[i][1]
        /\ prev_keypoints[i][2] = applied.before[i][2]

\* C17: for the same landmarks on the same image, of any width and height,
\* the normalized skeleton and the angles stored for a reference sample are
\* those the live pipeline computes (to 0.005 of a torso size and to one
\* degree, the resolution kept).
C17_SameNormalization ==
  applied.op = "reference_and_live" =>
    /\ \A i \in KpIdx :
         /\ Abs(applied.reference.keypoints[i][1]
                - applied.live.keypoints[i][1]) <= 5
         /\ Abs(applied.reference.keypoints[i][2]
                - applied.live.keypoints[i][2]) <= 5
    /\ \A name \in DOMAIN ANGLE_DEFINITIONS :
         IF applied.reference.angles[name] = NoneAngle
         THEN applied.live.angles[name] = NoneAngle
         ELSE /\ applied.live.angles[name] # NoneAngle
              /\ Abs(applied.reference.angles[name]
                     - applied.live.angles[name]) <= 100

\* C17 restricted to square images
C17_SquareImages ==
  (applied.op = "reference_and_live" /\ applied.w = applied.h)
    => C17_SameNormalization

\* C19: in a detected analyze_image response live_angles[name] is null
\* exactly when the joint angle is undefined, and a joint has an
\* angle_deviations entry exactly when its live_angles and reference_angles
\* entries are both non-null.
C19_NullOnlyWhenUndefined ==
  (applied.op = "analyze_image" /\ applied.out.detected) =>
    \A name \in DOMAIN ANGLE_DEFINITIONS :
      /\ applied.out.live_angles[name] = NoneAngle
           <=> applied.angles[name] = NoneAngle
      /\ name \in DOMAIN applied.out.angle_deviations
           <=> /\ applied.out.live_angles[name] # NoneAngle
               /\ applied.out.reference_angles[name] # NoneAngle

\* C18: a label of the last get_exercises response, passed back unchanged,
\* is not answered with the "not found" error by start_session nor by
\* analyze_image.
C18_ListedLabelsAccepted ==
  [][\A l \in ApiLabels :
       ("exercises" \in DOMAIN rest_resp /\ l \in rest_resp.exercises) =>
         /\ StartSession(l) => rest_resp'.status = "ok"
         /\ \A c \in RestFiles, ok \in BOOLEAN :
              AnalyzeImage(l, c, ok)
                => rest_resp' # NotFoundResponse(Lower(l))]_vars

\* C18 restricted to a table that is not empty and has lower-case labels only
C18_LowerCaseTable ==
  [][\A l \in ApiLabels :
       (/\ "exercises" \in DOMAIN rest_resp
        /\ l \in rest_resp.exercises
        /\ pose_references = LoadedReferences) =>
         /\ StartSession(l) => rest_resp'.status = "ok"
         /\ \A c \in RestFiles, ok \in BOOLEAN :
              AnalyzeImage(l, c, ok)
                => rest_resp' # NotFoundResponse(Lower(l))]_vars

=============================================================================
